---- MODULE Spec2Model ----
(***************************************************************************)
(* backstack.js (public/lib/backstackjs/js/backstack.js): Screen,          *)
(* Backstack, Tab and TabBar as a state machine.                           *)
(*                                                                         *)
(* JavaScript runs every event handler to completion, so one handler       *)
(* invocation is one step.  The steps are: the TabBar constructor, a click *)
(* on a tab button, a click (or submit) on a control carrying one of the   *)
(* five bs-override- classes, the completion (success or failure) of an    *)
(* AJAX request, and the next handler of a click whose element carries     *)
(* more than one handler.                                                  *)
(*                                                                         *)
(* The page is the one of the README: a <nav> holding a bs-override-back   *)
(* button outside the viewport, and the viewport whose content is replaced *)
(* by $(appViewId).html(htmlCode).  jQuery's .html() drops the handlers of *)
(* the elements it removes; $(term).off() drops the handlers of every      *)
(* element matching the term, whichever Screen installed them.             *)
(***************************************************************************)
EXTENDS Integers, Sequences, FiniteSets, Bags, TLC

\* ---------------------------------------------------------------- bounds
MaxClicks == 3         \* clicks and submits of the user in one run
MaxVer == 2            \* distinct documents the server has for one url
MaxInit == 2           \* Screens the first Tab is constructed with
MaxPush == 4           \* Screens pushed in a run of a Backstack on its own

Tabs == {"A", "B"}
\* the href of the go and go-and-clear links: the url of the first Tab's
\* first Screen, so that a link leads to a url a Screen already has (first
\* Tab) or to a new one (second Tab, whose Screen has url "u2")
Urls == {"u1"}
FormActions == {"save"}
Methods == {"get", "post"}
FormData == {"x=1"}

\* ------------------------------------------------------------- Backstack
\* undefined, as a Screen reference (screens[-1] of an empty array)
Undefined == 0

\* (x ? true : false) for a Screen reference or an array length
Truthy(x) == x # 0

popNoGuard(screens) ==
    IF Len(screens) >= 1
    THEN [screens |-> SubSeq(screens, 1, Len(screens) - 1),
          success |-> Truthy(screens[Len(screens)])]
    ELSE [screens |-> screens, success |-> FALSE]

popAlwaysTrue(screens) ==
    IF Len(screens) > 1
    THEN [screens |-> SubSeq(screens, 1, Len(screens) - 1), success |-> TRUE]
    ELSE [screens |-> screens, success |-> TRUE]

pop(screens) ==
    IF Len(screens) > 1
    THEN [screens |-> SubSeq(screens, 1, Len(screens) - 1),
          success |-> Truthy(screens[Len(screens)])]
    ELSE [screens |-> screens, success |-> FALSE]

popForcedGuarded(screens) ==
    IF Len(screens) > 1
    THEN [screens |-> SubSeq(screens, 1, Len(screens) - 1),
          success |-> Truthy(screens[Len(screens)])]
    ELSE [screens |-> screens, success |-> FALSE]

popForced(screens) ==
    IF Len(screens) >= 1
    THEN [screens |-> SubSeq(screens, 1, Len(screens) - 1),
          success |-> Truthy(screens[Len(screens)])]
    ELSE [screens |-> screens, success |-> FALSE]

pushUnshift(screens, screen) ==
    [screens |-> <<screen>> \o screens,
     success |-> Truthy(Len(screens) + 1)]

push(screens, screen) ==
    [screens |-> Append(screens, screen),
     success |-> Truthy(Len(screens) + 1)]

getCurrent(screens) ==
    IF Len(screens) >= 1 THEN screens[Len(screens)] ELSE Undefined

\* ---------------------------------------------------------------- Screen
\* htmlCode = null
Null == [url |-> "null", ver |-> 0]

\* the argument of a callback called without arguments
UndefinedHtml == [url |-> "undefined", ver |-> 0]

\* what the server answers to a request for url.  The document changes
\* between two requests: the answer differs from the one the requesting
\* Screen holds.
Response(url, held) == [url |-> url, ver |-> (held.ver % MaxVer) + 1]

Screen(url) == [url |-> url, htmlCode |-> Null, forceRefreshOnLoad |-> FALSE]

\* String.prototype.toUpperCase on a form's method
toUpperCase(method) ==
    CASE method = "get" -> "GET"
      [] method = "post" -> "POST"
      [] OTHER -> method

NoReq ==
    [kind |-> "none", tab |-> "none", screen |-> 0, bv |-> FALSE,
     origin |-> "none", url |-> "none", method |-> "none", data |-> "none"]

\* $.get(this.url, ...) issued by Screen s for Tab t; origin names the Tab
\* handler that asked for the load
GetReq(S, t, s, bv, origin) ==
    [kind |-> "get", tab |-> t, screen |-> s, bv |-> bv, origin |-> origin,
     url |-> S.heap[s].url, method |-> "GET", data |-> "none"]

VARIABLES
    bs,        \* Backstack.screens of a Backstack used on its own
    bsInit,    \* the initialScreens it was constructed with
    bsNext,    \* the next Screen to be created
    bsOp,      \* the last call made on it
    bsRet,     \* what that call returned, for push, pop and popForced
    bsCur,     \* what that call returned, for getCurrent
    bsPrev,    \* Backstack.screens before that call
    bsPopped,  \* the Screens removed so far
    bsForced,  \* whether popForced() has been called
    bsThrew    \* whether that call ended by throwing instead of returning

VARIABLES
    pc,                 \* "new" before the TabBar constructor ran, then "ready"
    heap,               \* the Screen objects created so far, by reference
    backstack,          \* backstack[t]: Backstack.screens of Tab t
    selectedTabViewId,  \* TabBar.selectedTabViewId
    inflight,           \* bag of the AJAX requests not yet completed
    nav,                \* handlers on the bs-override-back button of <nav>
    vp,                 \* handlers on the controls of the viewport's content
    backCss,            \* css visibility last set on the back controls
    viewport,           \* content and css visibility of the viewport
    observer,           \* arguments of the last onViewUpdated call
    clicks,             \* number of user events so far
    queue,              \* handlers of the running click still to be called
    last,               \* what the last handler invocation did
    saved               \* saved[t]: the urls of Tab t's Backstack when the
                        \* selection last moved away from t

stackVars ==
    <<bs, bsInit, bsNext, bsOp, bsRet, bsCur, bsPrev, bsPopped, bsForced,
      bsThrew>>
appVars == <<pc, heap, backstack, selectedTabViewId, inflight, nav, vp,
             backCss, viewport, observer, clicks, queue, last, saved>>
vars == <<stackVars, appVars>>

\* the program state as one value, so that a handler is a function on it
State ==
    [heap |-> heap, backstack |-> backstack, selected |-> selectedTabViewId,
     inflight |-> inflight, nav |-> nav, vp |-> vp, backCss |-> backCss,
     viewport |-> viewport, observer |-> observer, last |-> last]

\* no callback of the embedder (the page that constructed the TabBar) called
NoCall == [name |-> "none", tab |-> "none", url |-> "none"]

\* the record of one handler invocation, before it has done anything
Begin(S, op, t, self, arg) ==
    [S EXCEPT !.last =
        [op |-> op, tab |-> t, self |-> self, arg |-> arg, origin |-> "none",
         fetched |-> FALSE, wrote |-> FALSE, installed |-> FALSE,
         bv |-> FALSE, fault |-> FALSE, cb |-> NoCall, steps |-> <<>>]]

\* the handler has executed the statement called name
Step(S, name) == [S EXCEPT !.last.steps = Append(@, name)]

\* an uncaught TypeError: the rest of the handler does not run
Throw(S) == [S EXCEPT !.last.fault = TRUE]

destroyViewportOnly(S) == [S EXCEPT !.vp = <<>>]

\* Screen.destroy(): $(term).off(...) for the five terms
destroy(S) == [S EXCEPT !.nav = <<>>, !.vp = <<>>]

\* Screen.setBackVisibilityOverride() and the five set...Override() calls:
\* the handlers go on every matching element of the page
setupOverrides(S, t, s, isBackVisible) ==
    LET b == [tab |-> t, screen |-> s, bv |-> isBackVisible]
    IN [S EXCEPT !.backCss = isBackVisible,
                 !.nav = Append(@, b),
                 !.vp = Append(@, b),
                 !.last.installed = TRUE,
                 !.last.bv = isBackVisible,
                 !.last.steps = Append(@, "install")]

\* TabBar.animateOut(), TabBar.animateIn()
animateOut(S) == Step([S EXCEPT !.viewport.visible = FALSE], "hide")
animateIn(S) == Step([S EXCEPT !.viewport.visible = TRUE], "reveal")

onGetHTMLRevealFirst(S, t, htmlCode, url) ==
    LET S0 == animateIn(S)
        S1 == IF htmlCode = UndefinedHtml
              THEN S0
              ELSE [S0 EXCEPT !.viewport.html = htmlCode,
                              !.vp = <<>>,
                              !.last.wrote = TRUE,
                              !.last.steps = Append(@, "write")]
    IN [S1 EXCEPT !.observer = [tab |-> t, url |-> url],
                  !.last.cb = [name |-> "onViewUpdated", tab |-> t,
                               url |-> url],
                  !.last.steps = Append(@, "notify")]

\* the onGetHTML closure TabBar.setTabsClickListeners() gives Tab t.
\* $(appViewId).html(undefined) reads the content and writes nothing.
onGetHTML(S, t, htmlCode, url) ==
    LET S1 == IF htmlCode = UndefinedHtml
              THEN S
              ELSE [S EXCEPT !.viewport.html = htmlCode,
                             !.vp = <<>>,
                             !.last.wrote = TRUE,
                             !.last.steps = Append(@, "write")]
        S2 == [S1 EXCEPT !.observer = [tab |-> t, url |-> url],
                         !.last.cb = [name |-> "onViewUpdated", tab |-> t,
                                      url |-> url],
                         !.last.steps = Append(@, "notify")]
    IN animateIn(S2)

initialiseNoCacheTest(S, t, s, isBackVisible, origin) ==
    LET r == GetReq(S, t, s, isBackVisible, origin)
    IN [S EXCEPT !.inflight = @ (+) SetToBag({r}),
                 !.last.fetched = TRUE]

initialiseCacheUnwritten(S, t, s, isBackVisible, origin) ==
    IF S.heap[s].htmlCode = Null \/ S.heap[s].forceRefreshOnLoad
    THEN LET r == GetReq(S, t, s, isBackVisible, origin)
         IN [S EXCEPT !.inflight = @ (+) SetToBag({r}),
                      !.last.fetched = TRUE]
    ELSE setupOverrides(S, t, s, isBackVisible)

\* Screen.initialise() up to the return of $.get
initialise(S, t, s, isBackVisible, origin) ==
    IF S.heap[s].htmlCode = Null \/ S.heap[s].forceRefreshOnLoad
    THEN LET r == GetReq(S, t, s, isBackVisible, origin)
         IN [S EXCEPT !.inflight = @ (+) SetToBag({r}),
                      !.last.fetched = TRUE]
    ELSE setupOverrides(onGetHTML(S, t, S.heap[s].htmlCode, S.heap[s].url),
                        t, s, isBackVisible)

\* ------------------------------------------------------------------- Tab
isHeaderBackVisible(S, t) == Len(S.backstack[t]) > 1

\* Tab.getHtml(): undefined.initialise(...) throws on an empty Backstack
getHtml(S, t, origin) ==
    LET s == getCurrent(S.backstack[t])
    IN IF s = Undefined
       THEN Throw(S)
       ELSE initialise(Step(S, "load"), t, s, isHeaderBackVisible(S, t),
                       origin)

onGo(S, t, url, origin) ==
    LET s == Len(S.heap) + 1
        p == push(S.backstack[t], s)
        S1 == [S EXCEPT !.heap = Append(@, Screen(url)),
                        !.backstack[t] = p.screens]
    IN IF p.success THEN getHtml(S1, t, origin) ELSE S1

onBackNoPop(S, t) == getHtml(S, t, "back")

onBackAlwaysLoad(S, t) ==
    LET p == pop(S.backstack[t])
        S1 == [S EXCEPT !.backstack[t] = p.screens]
    IN getHtml(S1, t, "back")

onBack(S, t) ==
    LET p == pop(S.backstack[t])
        S1 == [S EXCEPT !.backstack[t] = p.screens]
    IN IF p.success THEN getHtml(S1, t, "back") ELSE S1

onGoAndClearNoPop(S, t, url) ==
    LET s == Len(S.heap) + 1
        p == push(S.backstack[t], s)
        S1 == [S EXCEPT !.heap = Append(@, Screen(url)),
                        !.backstack[t] = p.screens]
    IN getHtml(S1, t, "clear")

onGoAndClearNoPush(S, t, url) ==
    LET f == popForced(S.backstack[t])
        S1 == [S EXCEPT !.backstack[t] = f.screens]
    IN getHtml(S1, t, "clear")

onGoAndClear(S, t, url) ==
    LET f == popForced(S.backstack[t])
        s == Len(S.heap) + 1
        p == push(f.screens, s)
        S1 == [S EXCEPT !.heap = Append(@, Screen(url)),
                        !.backstack[t] = p.screens]
    IN getHtml(S1, t, "clear")

\* Tab.submitForm() up to the return of $.ajax
submitForm(S, t, self, action, method, data) ==
    LET r == [kind |-> "submit", tab |-> t, screen |-> self, bv |-> FALSE,
              origin |-> "submit", url |-> action,
              method |-> toUpperCase(method), data |-> data]
    IN [S EXCEPT !.inflight = @ (+) SetToBag({r})]

onSubmit(S, t, self, action, method, data) ==
    submitForm(S, t, self, action, method, data)

onRefresh(S, t) == getHtml(S, t, "refresh")

\* Tab.destroy()
Tab_destroy(S, t) ==
    IF getCurrent(S.backstack[t]) = Undefined THEN Throw(S) ELSE destroy(S)

\* ---------------------------------------------------------------- TabBar
\* TabBar.findTab(): the Tab, or undefined after console.error
findTab(tabViewId) == IF tabViewId \in Tabs THEN tabViewId ELSE "undefined"

onClickNoDestroy(S0, t) ==
    LET S == Begin(S0, "tab", t, Undefined, "none")
        S1 == animateOut(S)
    IN getHtml(Step([S1 EXCEPT !.selected = t], "select"), t, "tab")

onClickKeepSelection(S0, t) ==
    LET S == Begin(S0, "tab", t, Undefined, "none")
        S1 == animateOut(S)
        old == findTab(S1.selected)
        S2 == IF old = "undefined" THEN Throw(S1) ELSE Tab_destroy(S1, old)
    IN IF S2.last.fault
       THEN S2
       ELSE getHtml(Step(S2, "destroy"), t, "tab")

\* the click handler Tab.onClick() puts on the button of Tab t, with the
\* preCreate closure of TabBar.setTabsClickListeners()
onClick(S0, t) ==
    LET S == Begin(S0, "tab", t, Undefined, "none")
        S1 == animateOut(S)
        old == findTab(S1.selected)
        S2 == IF old = "undefined" THEN Throw(S1) ELSE Tab_destroy(S1, old)
    IN IF S2.last.fault
       THEN S2
       ELSE getHtml(Step([Step(S2, "destroy") EXCEPT !.selected = t],
                         "select"), t, "tab")

\* ------------------------------------------- the handlers of a Screen
handlerSubmitNoFlag(S0, e) ==
    LET b == e.b
        S == Begin(S0, e.kind, b.tab, b.screen, e.url)
    IN CASE e.kind = "go" -> onGo(destroy(S), b.tab, e.url, "go")
         [] e.kind = "back" -> onBack(destroy(S), b.tab)
         [] e.kind = "clear" -> onGoAndClear(destroy(S), b.tab, e.url)
         [] e.kind = "submit" ->
                onSubmit(S, b.tab, b.screen, e.url, e.method, e.data)
         [] e.kind = "refresh" ->
                onRefresh(
                    destroy([S EXCEPT !.heap[b.screen].forceRefreshOnLoad = TRUE]),
                    b.tab)

handlerGoKeepsBindings(S0, e) ==
    LET b == e.b
        S == Begin(S0, e.kind, b.tab, b.screen, e.url)
    IN CASE e.kind = "go" -> onGo(S, b.tab, e.url, "go")
         [] e.kind = "back" -> onBack(destroy(S), b.tab)
         [] e.kind = "clear" -> onGoAndClear(destroy(S), b.tab, e.url)
         [] e.kind = "submit" ->
                onSubmit([S EXCEPT !.heap[b.screen].forceRefreshOnLoad = TRUE],
                         b.tab, b.screen, e.url, e.method, e.data)
         [] e.kind = "refresh" ->
                onRefresh(
                    destroy([S EXCEPT !.heap[b.screen].forceRefreshOnLoad = TRUE]),
                    b.tab)

\* the closure installed by set<Kind>Override() of binding b, called for
\* an event e (kind of the control, href or form fields)
handler(S0, e) ==
    LET b == e.b
        S == Begin(S0, e.kind, b.tab, b.screen, e.url)
    IN CASE e.kind = "go" -> onGo(destroy(S), b.tab, e.url, "go")
         [] e.kind = "back" -> onBack(destroy(S), b.tab)
         [] e.kind = "clear" -> onGoAndClear(destroy(S), b.tab, e.url)
         [] e.kind = "submit" ->
                onSubmit([S EXCEPT !.heap[b.screen].forceRefreshOnLoad = TRUE],
                         b.tab, b.screen, e.url, e.method, e.data)
         [] e.kind = "refresh" ->
                onRefresh(
                    destroy([S EXCEPT !.heap[b.screen].forceRefreshOnLoad = TRUE]),
                    b.tab)

\* jQuery's dispatch: the handlers the element carries when the event
\* fires are all called, in the order they were attached
Event(handlers, kind, url, method, data) ==
    [i \in 1..Len(handlers) |->
        [kind |-> kind, b |-> handlers[i], url |-> url,
         method |-> method, data |-> data]]

\* the success callback of $.get in Screen.initialise(): `this` is the
\* settings object of the request, so this.forceRefreshOnLoad = false does
\* not touch the Screen
getSuccessDropsLate(S0, r, htmlCode) ==
    LET S == [Begin(S0, "getSuccess", r.tab, r.screen, r.url)
                 EXCEPT !.last.origin = r.origin]
        late == \/ r.tab # S0.selected
                \/ r.screen # getCurrent(S0.backstack[r.tab])
        S1 == [S EXCEPT !.inflight = @ (-) SetToBag({r}),
                        !.heap[r.screen].htmlCode =
                            IF late THEN @ ELSE htmlCode]
        S2 == onGetHTML(S1, r.tab, htmlCode, S1.heap[r.screen].url)
    IN setupOverrides(S2, r.tab, r.screen, r.bv)

getSuccess(S0, r, htmlCode) ==
    LET S == [Begin(S0, "getSuccess", r.tab, r.screen, r.url)
                 EXCEPT !.last.origin = r.origin]
        S1 == [S EXCEPT !.inflight = @ (-) SetToBag({r}),
                        !.heap[r.screen].htmlCode = htmlCode]
        S2 == onGetHTML(S1, r.tab, htmlCode, S1.heap[r.screen].url)
    IN setupOverrides(S2, r.tab, r.screen, r.bv)

getFailCaches(S0, r) ==
    LET S == [Begin(S0, "getFail", r.tab, r.screen, r.url)
                 EXCEPT !.last.origin = r.origin]
    IN [S EXCEPT !.inflight = @ (-) SetToBag({r}),
                 !.heap[r.screen].htmlCode = [url |-> r.url, ver |-> 1]]

\* $.get has no error callback
getFail(S0, r) ==
    LET S == [Begin(S0, "getFail", r.tab, r.screen, r.url)
                 EXCEPT !.last.origin = r.origin]
    IN [S EXCEPT !.inflight = @ (-) SetToBag({r})]

\* success of $.ajax in Tab.submitForm(): onSuccess() without arguments
submitSuccess(S0, r, htmlCode) ==
    LET S == Begin(S0, "submitSuccess", r.tab, r.screen, r.url)
        S1 == [S EXCEPT !.inflight = @ (-) SetToBag({r})]
    IN onGetHTML(S1, r.tab, UndefinedHtml, "undefined")

submitFailDestroys(S0, r) ==
    LET S == Begin(S0, "submitFail", r.tab, r.screen, r.url)
    IN destroy([S EXCEPT !.inflight = @ (-) SetToBag({r})])

\* error of $.ajax in Tab.submitForm(): the onFailure closure of
\* Screen.setSubmitOverride() writes to console.error
submitFail(S0, r) ==
    LET S == Begin(S0, "submitFail", r.tab, r.screen, r.url)
    IN [S EXCEPT !.inflight = @ (-) SetToBag({r})]

\* ----------------------------------------------------------- the machine
NoLast ==
    [op |-> "none", tab |-> "none", self |-> 0, arg |-> "none",
     origin |-> "none",
     fetched |-> FALSE, wrote |-> FALSE, installed |-> FALSE,
     bv |-> FALSE, fault |-> FALSE, cb |-> NoCall, steps |-> <<>>]

\* Tab t is selected, or was never selected
NotLeft == <<>>

\* the urls of the Screens of Tab t's Backstack, bottom first
Locators(S, t) ==
    [i \in 1..Len(S.backstack[t]) |-> S.heap[S.backstack[t][i]].url]

\* initialScreens of the Tabs: n[t] Screens, created in Tab order
InitHeap(n) ==
    [i \in 1..(n["A"] + n["B"]) |-> Screen(IF i % 2 = 1 THEN "u1" ELSE "u2")]

InitBackstack(n) ==
    [t \in Tabs |->
        IF t = "A" THEN [i \in 1..n["A"] |-> i]
                   ELSE [i \in 1..n["B"] |-> n["A"] + i]]

StackIdle ==
    /\ bs = <<>> /\ bsInit = <<>> /\ bsNext = 1 /\ bsOp = "none"
    /\ bsRet = FALSE /\ bsCur = Undefined /\ bsPrev = <<>>
    /\ bsPopped = {} /\ bsForced = FALSE /\ bsThrew = FALSE

AppIdle ==
    /\ pc = "new"
    /\ heap = <<>>
    /\ backstack = [t \in Tabs |-> <<>>]
    /\ selectedTabViewId = "A"
    /\ inflight = EmptyBag
    /\ nav = <<>>
    /\ vp = <<>>
    /\ backCss = TRUE
    /\ viewport = [html |-> Null, visible |-> TRUE]
    /\ observer = [tab |-> "none", url |-> "none"]
    /\ clicks = 0
    /\ queue = <<>>
    /\ last = NoLast
    /\ saved = [t \in Tabs |-> NotLeft]

Init ==
    /\ StackIdle
    /\ pc = "new"
    /\ \E n \in {[A |-> a, B |-> 1] : a \in 1..MaxInit} :
          /\ heap = InitHeap(n)
          /\ backstack = InitBackstack(n)
    /\ selectedTabViewId \in Tabs
    /\ inflight = EmptyBag
    /\ nav = <<>>
    /\ vp = <<>>
    /\ backCss = TRUE
    /\ viewport = [html |-> Null, visible |-> TRUE]
    /\ observer = [tab |-> "none", url |-> "none"]
    /\ clicks = 0
    /\ queue = <<>>
    /\ last = NoLast
    /\ saved = [t \in Tabs |-> NotLeft]

\* the Screens some closure or Backstack still refers to
Referenced(S, q) ==
    UNION {{S.backstack[t][i] : i \in 1..Len(S.backstack[t])} : t \in Tabs}
    \cup {r.screen : r \in BagToSet(S.inflight)}
    \cup {S.nav[i].screen : i \in 1..Len(S.nav)}
    \cup {S.vp[i].screen : i \in 1..Len(S.vp)}
    \cup {q[i].b.screen : i \in 1..Len(q)}

\* garbage collection: a Screen nothing refers to has no state any more
Collect(S, q) ==
    [i \in 1..Len(S.heap) |->
        IF i \in Referenced(S, q) THEN S.heap[i] ELSE Screen("garbage")]

Become(S, q) ==
    /\ heap' = Collect(S, q)
    /\ backstack' = S.backstack
    /\ selectedTabViewId' = S.selected
    /\ inflight' = S.inflight
    /\ nav' = S.nav
    /\ vp' = S.vp
    /\ backCss' = S.backCss
    /\ viewport' = S.viewport
    /\ observer' = S.observer
    /\ last' = S.last
    /\ queue' = q
    /\ saved' = IF S.selected = selectedTabViewId
                THEN saved
                ELSE [saved EXCEPT ![selectedTabViewId] =
                                       Locators(S, selectedTabViewId),
                                   ![S.selected] = NotLeft]
    /\ UNCHANGED stackVars

Idle == pc = "ready" /\ queue = <<>>

\* a click on a control that carries handlers: the first handler runs now,
\* the others stay queued for NextHandler
Fire(ev) ==
    /\ Idle
    /\ clicks < MaxClicks
    /\ Len(ev) >= 1
    /\ Become(handler(State, ev[1]), Tail(ev))
    /\ clicks' = clicks + 1
    /\ UNCHANGED pc

ConstructNoClick ==
    /\ pc = "new"
    /\ pc' = "ready"
    /\ UNCHANGED <<heap, backstack, selectedTabViewId, inflight, nav, vp,
                   backCss, viewport, observer, clicks, queue, last, saved>>
    /\ UNCHANGED stackVars

\* new TabBar(...): setTabsClickListeners(), then clickTab(selectedTabViewId)
\* $("#" + id).click() on an id that is no Tab's button runs no handler
Construct ==
    /\ pc = "new"
    /\ pc' = "ready"
    /\ IF selectedTabViewId \in Tabs
       THEN Become([onClick(State, selectedTabViewId)
                       EXCEPT !.last.op = "construct"], <<>>)
       ELSE Become(State, <<>>)
    /\ UNCHANGED clicks

ClickTab(t) ==
    /\ Idle
    /\ clicks < MaxClicks
    /\ Become(onClick(State, t), <<>>)
    /\ clicks' = clicks + 1
    /\ UNCHANGED pc

ClickGo(url) ==
    /\ Fire(Event(vp, "go", url, "none", "none"))

\* a control hidden by css visibility receives no click
ClickBack ==
    /\ backCss
    /\ Fire(Event(vp, "back", "none", "none", "none"))

ClickNavBack ==
    /\ backCss
    /\ Fire(Event(nav, "back", "none", "none", "none"))

ClickGoAndClear(url) ==
    /\ Fire(Event(vp, "clear", url, "none", "none"))

ClickRefresh ==
    /\ Fire(Event(vp, "refresh", "none", "none", "none"))

SubmitForm(action, method, data) ==
    /\ Fire(Event(vp, "submit", action, method, data))

NextHandler ==
    /\ pc = "ready"
    /\ queue # <<>>
    /\ Become(handler(State, Head(queue)), Tail(queue))
    /\ UNCHANGED <<pc, clicks>>

GetSuccess(r) ==
    /\ Idle
    /\ r.kind = "get"
    /\ Become(getSuccess(State, r, Response(r.url, heap[r.screen].htmlCode)),
              <<>>)
    /\ UNCHANGED <<pc, clicks>>

GetFail(r) ==
    /\ Idle
    /\ r.kind = "get"
    /\ Become(getFail(State, r), <<>>)
    /\ UNCHANGED <<pc, clicks>>

SubmitSuccess(r) ==
    /\ Idle
    /\ r.kind = "submit"
    /\ Become(submitSuccess(State, r, Response(r.url, Null)), <<>>)
    /\ UNCHANGED <<pc, clicks>>

SubmitFail(r) ==
    /\ Idle
    /\ r.kind = "submit"
    /\ Become(submitFail(State, r), <<>>)
    /\ UNCHANGED <<pc, clicks>>

Next ==
    \/ Construct
    \/ \E t \in Tabs : ClickTab(t)
    \/ \E url \in Urls : ClickGo(url)
    \/ ClickBack
    \/ ClickNavBack
    \/ \E url \in Urls : ClickGoAndClear(url)
    \/ ClickRefresh
    \/ \E a \in FormActions, m \in Methods, d \in FormData :
          SubmitForm(a, m, d)
    \/ NextHandler
    \/ \E r \in BagToSet(inflight) : GetSuccess(r)
    \/ \E r \in BagToSet(inflight) : GetFail(r)
    \/ \E r \in BagToSet(inflight) : SubmitSuccess(r)
    \/ \E r \in BagToSet(inflight) : SubmitFail(r)

Spec == Init /\ [][Next]_vars

\* the browser answers every request, with success or with an error, and
\* runs every handler of a click it has dispatched
Answer ==
    \E r \in BagToSet(inflight) :
        GetSuccess(r) \/ GetFail(r) \/ SubmitSuccess(r) \/ SubmitFail(r)

SpecLive ==
    Init /\ [][Next]_vars /\ WF_vars(Answer) /\ WF_vars(NextHandler)

\* ------------------------------------------------- structural misuse
\* the constructors check nothing: a Tab may be given an empty array of
\* initialScreens, and the TabBar a selectedTabViewId that is no Tab's
NoTab == "none"

InitMisuse ==
    /\ StackIdle
    /\ pc = "new"
    /\ \E n \in {[A |-> a, B |-> b] : a \in 0..MaxInit, b \in 0..1} :
          /\ heap = InitHeap(n)
          /\ backstack = InitBackstack(n)
    /\ selectedTabViewId \in Tabs \cup {NoTab}
    /\ inflight = EmptyBag
    /\ nav = <<>>
    /\ vp = <<>>
    /\ backCss = TRUE
    /\ viewport = [html |-> Null, visible |-> TRUE]
    /\ observer = [tab |-> "none", url |-> "none"]
    /\ clicks = 0
    /\ queue = <<>>
    /\ last = NoLast
    /\ saved = [t \in Tabs |-> NotLeft]

SpecMisuse == InitMisuse /\ [][Next]_vars

\* ------------------------------------------- a Backstack on its own
\* new Backstack(initialScreens), then any calls of its four methods
InitStack ==
    /\ AppIdle
    /\ \E n \in 0..MaxInit :
          /\ bs = [i \in 1..n |-> i]
          /\ bsInit = [i \in 1..n |-> i]
          /\ bsNext = n + 1
    /\ bsOp = "none"
    /\ bsRet = FALSE
    /\ bsCur = Undefined
    /\ bsPrev = <<>>
    /\ bsPopped = {}
    /\ bsForced = FALSE
    /\ bsThrew = FALSE

Removed(before, after) ==
    {before[i] : i \in 1..Len(before)} \ {after[i] : i \in 1..Len(after)}

Called(op, r, forced) ==
    /\ bsOp' = op
    /\ bsPrev' = bs
    /\ bs' = r.screens
    /\ bsRet' = r.success
    /\ bsCur' = Undefined
    /\ bsPopped' = bsPopped \cup Removed(bs, r.screens)
    /\ bsForced' = (bsForced \/ forced)
    /\ bsThrew' = FALSE
    /\ UNCHANGED <<bsInit, appVars>>

CallPush ==
    /\ bsNext - Len(bsInit) <= MaxPush
    /\ Called("push", push(bs, bsNext), FALSE)
    /\ bsNext' = bsNext + 1

CallPop ==
    /\ Called("pop", pop(bs), FALSE)
    /\ UNCHANGED bsNext

CallPopForced ==
    /\ Called("popForced", popForced(bs), TRUE)
    /\ UNCHANGED bsNext

CallGetCurrent ==
    /\ bsOp' = "getCurrent"
    /\ bsPrev' = bs
    /\ bsCur' = getCurrent(bs)
    /\ bsThrew' = FALSE
    /\ UNCHANGED <<bs, bsInit, bsNext, bsRet, bsPopped, bsForced, appVars>>

NextStack == CallPush \/ CallPop \/ CallPopForced \/ CallGetCurrent

SpecStack == InitStack /\ [][NextStack]_vars

TypeOK ==
    /\ pc \in {"new", "ready"}
    /\ selectedTabViewId \in Tabs
    /\ clicks \in 0..MaxClicks

\* ------------------------------------------------------------ properties
Max(set) == CHOOSE x \in set : \A y \in set : y <= x

Front(seq) == SubSeq(seq, 1, Len(seq) - 1)

\* the Screens created so far and not removed from the Backstack
BsKept == (1..(bsNext - 1)) \ bsPopped

\* C1: under SpecStack, a Backstack constructed with at least one Screen
\* and used with push and pop only (no popForced) is never empty, and
\* getCurrent() is the most recently pushed Screen that was not popped.
C1_NeverEmptyWithoutForced ==
    (Len(bsInit) >= 1 /\ ~bsForced) =>
        /\ Len(bs) >= 1
        /\ getCurrent(bs) = Max(BsKept)
        /\ (bsOp = "getCurrent" => bsCur = Max(BsKept))

\* a pop was refused on the last Screen after other Screens were popped
C1_Witness ==
    /\ Len(bsInit) >= 1 /\ ~bsForced
    /\ bsOp = "getCurrent" /\ bsCur = 1
    /\ bsPopped # {} /\ bsNext > Len(bsInit) + 1

\* C2: under SpecStack, pop() removes the top Screen and returns true
\* exactly when the Backstack holds more than one Screen; with one Screen
\* or none it returns false and leaves the Backstack as it was.
C2_PopContract ==
    bsOp = "pop" =>
        IF Len(bsPrev) > 1
        THEN bsRet /\ bs = Front(bsPrev)
        ELSE ~bsRet /\ bs = bsPrev

\* a pop that removed a Screen has been followed by one that was refused
C2_Witness ==
    /\ bsOp = "pop" /\ ~bsRet /\ Len(bsPrev) = 1
    /\ bsPopped # {} /\ ~bsForced

\* C3: under Spec, the Backstack of every Tab holds at least one Screen in
\* every reachable state, whatever the clicks and completions were.
C3_TabStackNeverEmpty == \A t \in Tabs : Len(backstack[t]) >= 1

\* Go-and-replace has run on a Tab whose Backstack held one Screen
C3_Witness ==
    /\ last.op = "clear"
    /\ Len(backstack[last.tab]) = 1
    /\ getCurrent(backstack[last.tab]) = Len(heap)
    /\ last.fetched

\* Screen s has its interceptors installed on the viewport's controls, for
\* Tab t, with back-visibility bv
Bound(t, s, bv) ==
    \E i \in 1..Len(vp) : vp[i] = [tab |-> t, screen |-> s, bv |-> bv]

OthersKeep(t) == \A u \in Tabs \ {t} : backstack'[u] = backstack[u]

\* the step is an invocation of the Screen handler of the given kind
Ran(kind) == last'.op = kind /\ vars' # vars

\* this step has put exactly request r in flight
Issued(r) == inflight' = inflight (+) SetToBag({r})

\* C4: Go(d) on a Tab whose Backstack is S leaves it equal to S followed by
\* one new Screen with url d and issues a $.get of d; when that request
\* succeeds the new Screen is the Tab's current Screen and its interceptors
\* are installed with back-visibility true.
C4_GoStep ==
    Ran("go") =>
        LET t == last'.tab
            new == Len(heap')
        IN /\ Len(heap') = Len(heap) + 1
           /\ backstack'[t] = Append(backstack[t], new)
           /\ OthersKeep(t)
           /\ heap'[new].url = last'.arg
           /\ last'.fetched
           /\ Issued([kind |-> "get", tab |-> t, screen |-> new, bv |-> TRUE,
                      origin |-> "go", url |-> last'.arg, method |-> "GET",
                      data |-> "none"])

C4_GoSucceeded ==
    (last.op = "getSuccess" /\ last.origin = "go") =>
        /\ getCurrent(backstack[last.tab]) = last.self
        /\ heap[last.self].url = last.arg
        /\ last.installed /\ last.bv
        /\ Bound(last.tab, last.self, TRUE)

C4_GoPushesFetchesBinds == [][C4_GoStep]_vars /\ []C4_GoSucceeded

\* C5 as stated: Back at depth > 1 removes exactly the top Screen; when the
\* new top Screen holds cached content, no request is issued, the viewport
\* receives that content, the interceptors are installed again and the
\* back-visibility applied is (new depth > 1).
C5_BackServed(t, top) ==
    /\ ~last'.fetched
    /\ inflight' = inflight
    /\ last'.wrote
    /\ viewport'.html = heap[top].htmlCode
    /\ last'.installed
    /\ last'.bv = (Len(backstack'[t]) > 1)
    /\ backCss' = (Len(backstack'[t]) > 1)
    /\ vp' = <<[tab |-> t, screen |-> top, bv |-> Len(backstack'[t]) > 1]>>

C5_BackStepAsStated ==
    (Ran("back") /\ Len(backstack[last'.tab]) > 1) =>
        LET t == last'.tab
            top == getCurrent(Front(backstack[t]))
        IN /\ backstack'[t] = Front(backstack[t])
           /\ OthersKeep(t)
           /\ (heap[top].htmlCode # Null => C5_BackServed(t, top))

C5_BackUsesAnyCache == [][C5_BackStepAsStated]_vars

\* C5 amended: the same, when the new top Screen holds cached content and
\* is not flagged stale (forceRefreshOnLoad is false); a new top Screen that
\* has no content or is flagged stale is fetched and nothing is written yet.
C5_BackStepAmended ==
    (Ran("back") /\ Len(backstack[last'.tab]) > 1) =>
        LET t == last'.tab
            top == getCurrent(Front(backstack[t]))
        IN /\ backstack'[t] = Front(backstack[t])
           /\ OthersKeep(t)
           /\ IF heap[top].htmlCode # Null /\ ~heap[top].forceRefreshOnLoad
              THEN C5_BackServed(t, top)
              ELSE /\ last'.fetched
                   /\ Issued([kind |-> "get", tab |-> t, screen |-> top,
                              bv |-> Len(backstack'[t]) > 1,
                              origin |-> "back", url |-> heap[top].url,
                              method |-> "GET", data |-> "none"])
                   /\ ~last'.wrote
                   /\ viewport'.html = viewport.html

C5_BackUsesFreshCache == [][C5_BackStepAmended]_vars

\* Back has popped a Screen and shown the cached content of the one below
C5_Witness ==
    /\ last.op = "back" /\ ~last.fetched /\ last.wrote /\ last.installed
    /\ viewport.html = heap[getCurrent(backstack[last.tab])].htmlCode
    /\ Len(heap) > Len(backstack["A"]) + Len(backstack["B"])

\* C6: Back on a Tab whose Backstack holds exactly one Screen changes
\* neither the Backstack nor the current Screen, issues no request and
\* writes nothing to the viewport.
C6_BackStepAtDepthOne ==
    (Ran("back") /\ Len(backstack[last'.tab]) = 1) =>
        LET t == last'.tab
            cur == getCurrent(backstack[t])
        IN /\ backstack' = backstack
           /\ heap'[cur] = heap[cur]
           /\ ~last'.fetched
           /\ inflight' = inflight
           /\ ~last'.wrote
           /\ viewport' = viewport

C6_BackAtDepthOneIsNoOp == [][C6_BackStepAtDepthOne]_vars

\* a back handler has run and found nothing to pop
C6_Witness ==
    /\ last.op = "back" /\ ~last.fetched /\ ~last.wrote /\ ~last.fault
    /\ Len(backstack[last.tab]) = 1

\* C7: Go-and-replace(d) on a Tab whose Backstack is S leaves it equal to S
\* without its top, followed by one new Screen with url d; the depth is the
\* same, a $.get of d is issued, and a Screen that has left a Backstack is
\* never on it again.
C7_ClearStep ==
    Ran("clear") =>
        LET t == last'.tab
            new == Len(heap')
        IN /\ Len(backstack[t]) >= 1
           /\ Len(heap') = Len(heap) + 1
           /\ backstack'[t] = Append(Front(backstack[t]), new)
           /\ Len(backstack'[t]) = Len(backstack[t])
           /\ OthersKeep(t)
           /\ heap'[new].url = last'.arg
           /\ heap'[new].htmlCode = Null
           /\ last'.fetched
           /\ Issued([kind |-> "get", tab |-> t, screen |-> new,
                      bv |-> Len(backstack[t]) > 1, origin |-> "clear",
                      url |-> last'.arg, method |-> "GET", data |-> "none"])

OnStack(stack, s) == \E i \in 1..Len(stack) : stack[i] = s

C7_NeverBack ==
    \A t \in Tabs, s \in 1..Len(heap) :
        ~OnStack(backstack[t], s) => ~OnStack(backstack'[t], s)

C7_GoAndClearReplacesTop == [][C7_ClearStep /\ C7_NeverBack]_vars

\* Go-and-replace has replaced the top of a Backstack of depth 2
C7_Witness ==
    /\ last.op = "clear" /\ last.fetched
    /\ Len(backstack[last.tab]) = 2
    /\ getCurrent(backstack[last.tab]) = Len(heap)
    /\ Len(heap) > Len(backstack["A"]) + Len(backstack["B"])

\* C8: Refresh leaves the Backstack as it is and issues a $.get of the
\* current Screen's url even when that Screen holds cached content; the
\* content the viewport then receives is the response, not the content
\* cached before.
C8_RefreshStep ==
    Ran("refresh") =>
        LET t == last'.tab
            cur == getCurrent(backstack[t])
        IN /\ backstack' = backstack
           /\ last'.fetched
           /\ Issued([kind |-> "get", tab |-> t, screen |-> cur,
                      bv |-> Len(backstack[t]) > 1, origin |-> "refresh",
                      url |-> heap[cur].url, method |-> "GET",
                      data |-> "none"])

C8_RefreshDelivered ==
    (Ran("getSuccess") /\ last'.origin = "refresh") =>
        LET s == last'.self
        IN /\ last'.wrote
           /\ viewport'.html = Response(heap[s].url, heap[s].htmlCode)
           /\ viewport'.html # heap[s].htmlCode
           /\ heap'[s].htmlCode = viewport'.html

C8_RefreshFetchesAfresh == [][C8_RefreshStep /\ C8_RefreshDelivered]_vars

\* C9: a click on a tab loads the Tab's current Screen with the cache
\* allowed: with cached content that is not flagged stale no request is
\* issued and the cached content is written and bound; otherwise a $.get
\* is issued and nothing is written yet.
C9_TabClickStep ==
    (Ran("tab") \/ Ran("construct")) =>
        LET t == last'.tab
            cur == getCurrent(backstack[t])
        IN /\ backstack' = backstack
           /\ selectedTabViewId' = t
           /\ IF heap[cur].htmlCode # Null /\ ~heap[cur].forceRefreshOnLoad
              THEN /\ ~last'.fetched
                   /\ inflight' = inflight
                   /\ last'.wrote
                   /\ viewport'.html = heap[cur].htmlCode
                   /\ last'.installed
                   /\ vp' = <<[tab |-> t, screen |-> cur,
                               bv |-> Len(backstack[t]) > 1]>>
              ELSE /\ last'.fetched
                   /\ Issued([kind |-> "get", tab |-> t, screen |-> cur,
                              bv |-> Len(backstack[t]) > 1, origin |-> "tab",
                              url |-> heap[cur].url, method |-> "GET",
                              data |-> "none"])
                   /\ ~last'.wrote
                   /\ ~last'.installed

C9_ActivationUsesCache == [][C9_TabClickStep]_vars

\* a tab click has been served from the cache
C9_Witness ==
    /\ last.op = "tab" /\ ~last.fetched /\ last.wrote /\ last.installed
    /\ selectedTabViewId = last.tab
    /\ viewport.html = heap[getCurrent(backstack[last.tab])].htmlCode

\* C10: Submit(action, method, data) on a Tab whose Backstack is S pushes
\* one new Screen with url action and sends one request to action with the
\* form's method and data; on success the Backstack is S followed by that
\* Screen, whose cached and rendered content is the response, with its
\* interceptors installed.
C10_SubmitStep ==
    Ran("submit") =>
        LET t == last'.tab
            new == Len(heap')
        IN /\ Len(heap') = Len(heap) + 1
           /\ backstack'[t] = Append(backstack[t], new)
           /\ heap'[new].url = last'.arg
           /\ \E r \in BagToSet(inflight') :
                 /\ Issued(r)
                 /\ r.url = last'.arg
                 /\ r.method \in {"GET", "POST"}

C10_SubmitSucceeded ==
    Ran("submitSuccess") =>
        LET t == last'.tab
            cur == getCurrent(backstack'[t])
        IN /\ heap'[cur].url = last'.arg
           /\ heap'[cur].htmlCode = Response(last'.arg, Null)
           /\ last'.wrote
           /\ viewport'.html = heap'[cur].htmlCode
           /\ last'.installed

C10_SubmitPushesScreen == [][C10_SubmitStep /\ C10_SubmitSucceeded]_vars
\* the binding of Screen s is on some control of the page
Live(s) ==
    \/ \E i \in 1..Len(nav') : nav'[i].screen = s
    \/ \E i \in 1..Len(vp') : vp'[i].screen = s

\* C11: when a submit request fails, the embedder's error callback is called
\* with the Tab's identifier and the submitted action, nothing is written to
\* the viewport and no Backstack changes; the Screen pushed for the action
\* holds no content and has no interceptor installed.
C11_NothingRendered ==
    Ran("submitFail") =>
        /\ ~last'.wrote
        /\ viewport' = viewport
        /\ backstack' = backstack

C11_SubmitFailStep ==
    Ran("submitFail") =>
        LET t == last'.tab
            cur == getCurrent(backstack'[t])
        IN /\ last'.cb = [name |-> "onError", tab |-> t, url |-> last'.arg]
           /\ heap'[cur].url = last'.arg
           /\ heap'[cur].htmlCode = Null
           /\ ~Live(cur)

C11_SubmitFailureReported ==
    [][C11_NothingRendered /\ C11_SubmitFailStep]_vars

\* C12: every failed $.get is reported: the embedder's error callback is
\* called with the identifier of the Tab that issued it and the url that
\* failed; no request is issued again, and neither the Screen's htmlCode nor
\* the viewport is written.
C12_NothingWritten ==
    Ran("getFail") =>
        LET s == last'.self
        IN /\ BagCardinality(inflight') = BagCardinality(inflight) - 1
           /\ ~last'.fetched
           /\ ~last'.wrote
           /\ viewport' = viewport
           /\ (heap'[s].url # "garbage" => heap'[s] = heap[s])

C12_FetchFailStep ==
    Ran("getFail") =>
        last'.cb = [name |-> "onError", tab |-> last'.tab, url |-> last'.arg]

C12_FetchFailureReported ==
    [][C12_NothingWritten /\ C12_FetchFailStep]_vars
\* C13: a click on tab B while tab A is selected releases the interceptors of
\* A's current Screen before B's content is written: after the click the
\* selection is B and no interceptor of a Screen of A is on the page; what
\* the click has written, if anything, is B's cached content.
C13_TabSwitchStep ==
    (Ran("tab") /\ last'.tab # selectedTabViewId) =>
        LET t == last'.tab
            cur == getCurrent(backstack[t])
        IN /\ selectedTabViewId' = t
           /\ \A i \in 1..Len(nav') : nav'[i].tab = t
           /\ \A i \in 1..Len(vp') : vp'[i].tab = t
           /\ IF last'.wrote
              THEN /\ viewport'.html = heap[cur].htmlCode
                   /\ nav' = <<[tab |-> t, screen |-> cur,
                                bv |-> Len(backstack[t]) > 1]>>
                   /\ vp' = nav'
              ELSE /\ viewport'.html = viewport.html
                   /\ nav' = <<>>
                   /\ vp' = <<>>

C13_ReleasedBeforeWrite == [][C13_TabSwitchStep]_vars

\* a click on a tab has replaced the loaded content of the other Tab by
\* this Tab's cached content
C13_Witness ==
    /\ last.op = "tab" /\ last.wrote /\ last.installed
    /\ selectedTabViewId = last.tab
    /\ \E u \in Tabs \ {last.tab} :
          heap[getCurrent(backstack[u])].htmlCode # Null
    /\ Len(nav) = 1 /\ nav[1].tab = last.tab

\* C14: in every reachable state the interceptors on the page belong to
\* Screens of at most one Tab.
C14_OneTabLive ==
    \A t, u \in Tabs :
        ((\E i \in 1..Len(nav) : nav[i].tab = t) \/
         (\E i \in 1..Len(vp) : vp[i].tab = t))
        /\ ((\E i \in 1..Len(nav) : nav[i].tab = u) \/
            (\E i \in 1..Len(vp) : vp[i].tab = u))
        => t = u

\* C15: every write to the viewport is made for the Tab that is selected at
\* the moment of the write.
C15_WritesBySelectedTab == last.wrote => last.tab = selectedTabViewId

\* C16: the selection names one Tab of the TabBar in every reachable state;
\* a click on a tab makes it name that Tab and nothing else changes it.
C16_SelectionStep ==
    /\ Ran("tab") => selectedTabViewId' = last'.tab
    /\ (~Ran("tab")) => selectedTabViewId' = selectedTabViewId

C16_SelectionValid ==
    [](selectedTabViewId \in Tabs) /\ [][C16_SelectionStep]_vars

\* tab B was clicked after Tab A had been shown, and is now selected
C16_Witness ==
    /\ last.op = "tab" /\ last.tab = "B" /\ selectedTabViewId = "B"
    /\ heap[getCurrent(backstack["A"])].htmlCode # Null
    /\ clicks >= 1
\* C17: new TabBar(...) runs the click handler of the initially selected
\* tab: without a click of the user a $.get of that Tab's current Screen is
\* issued, and when it succeeds the response is written to the viewport and
\* onViewUpdated is called with the Tab's identifier and the url.
C17_ConstructStep ==
    (pc = "new" /\ pc' = "ready") =>
        LET t == selectedTabViewId
            cur == getCurrent(backstack[t])
        IN /\ last'.op = "construct" /\ last'.tab = t
           /\ clicks' = 0
           /\ selectedTabViewId' = t
           /\ last'.fetched
           /\ Issued([kind |-> "get", tab |-> t, screen |-> cur,
                      bv |-> Len(backstack[t]) > 1, origin |-> "tab",
                      url |-> heap[cur].url, method |-> "GET",
                      data |-> "none"])

C17_FirstLoadShown ==
    (Ran("getSuccess") /\ clicks = 0) =>
        LET t == selectedTabViewId
            cur == getCurrent(backstack[t])
        IN /\ last'.tab = t /\ last'.self = cur
           /\ last'.wrote
           /\ viewport' = [html |-> Response(heap[cur].url, Null),
                           visible |-> TRUE]
           /\ observer' = [tab |-> t, url |-> heap[cur].url]
           /\ last'.cb = [name |-> "onViewUpdated", tab |-> t,
                          url |-> heap[cur].url]

C17_ConstructorLoadsInitialTab ==
    [][C17_ConstructStep /\ C17_FirstLoadShown]_vars

\* the first Screen is shown and the user has not clicked anything
C17_Witness ==
    /\ clicks = 0 /\ last.op = "getSuccess"
    /\ last.tab = selectedTabViewId
    /\ viewport.html = heap[getCurrent(backstack[selectedTabViewId])].htmlCode
    /\ viewport.html # Null /\ viewport.visible
    /\ observer.tab = selectedTabViewId

\* C18: the state of a Tab is kept between tab changes: when a Tab is
\* selected again, the urls of its Backstack, bottom to top, are the ones it
\* had when the selection moved away from it.
C18_ReselectStep ==
    (Ran("tab") /\ last'.tab # selectedTabViewId
        /\ saved[last'.tab] # NotLeft) =>
        Locators(State, last'.tab) = saved[last'.tab]

C18_TabClickKeepsStacks ==
    (Ran("tab") \/ Ran("construct")) =>
        /\ backstack' = backstack
        /\ \A t \in Tabs : Locators([heap |-> heap', backstack |-> backstack'], t)
                              = Locators(State, t)

C18_TabStateSaved == [][C18_ReselectStep /\ C18_TabClickKeepsStacks]_vars
\* C19: a load of a Screen that holds content and is not flagged stale
\* issues no request and delivers the content the Screen holds, and the
\* content a Screen holds is only ever written by the success of its own
\* $.get, as the response delivered then: the cached load delivers the
\* result of the Screen's most recent successful fetch.
C19_CachedLoadStep ==
    \A t \in Tabs :
        LET s == getCurrent(backstack'[t])
        IN (/\ last'.tab = t
            /\ \/ Ran("tab")
               \/ Ran("construct")
               \/ Ran("refresh")
               \/ Ran("back") /\ backstack' # backstack
            /\ ~last'.fault
            /\ s <= Len(heap)
            /\ heap[s].htmlCode # Null
            /\ ~heap'[s].forceRefreshOnLoad)
           => /\ ~last'.fetched
              /\ inflight' = inflight
              /\ last'.wrote
              /\ viewport'.html = heap[s].htmlCode
              /\ heap'[s].htmlCode = heap[s].htmlCode

C19_StoredOnlyByFetch ==
    \A s \in 1..Len(heap) :
        (heap'[s].htmlCode # heap[s].htmlCode /\ heap'[s].url # "garbage") =>
            /\ Ran("getSuccess") /\ last'.self = s
            /\ heap'[s].htmlCode = Response(heap[s].url, heap[s].htmlCode)
            /\ viewport'.html = heap'[s].htmlCode

C19_CacheRoundTrip == [][C19_CachedLoadStep /\ C19_StoredOnlyByFetch]_vars

\* a Screen fetched twice has been loaded from the cache: the content
\* delivered is the second response
C19_Witness ==
    /\ last.op \in {"tab", "back"} /\ ~last.fetched /\ last.wrote
    /\ viewport.html = heap[getCurrent(backstack[last.tab])].htmlCode
    /\ viewport.html.ver = 2

\* C20: when a $.get of a Screen succeeds, the response is stored as the
\* Screen's htmlCode and its forceRefreshOnLoad flag is cleared, so that the
\* next load of the Screen is served from the cache.
C20_FetchStored ==
    Ran("getSuccess") =>
        LET s == last'.self
        IN heap'[s].htmlCode = Response(heap[s].url, heap[s].htmlCode)

C20_StaleCleared ==
    Ran("getSuccess") => ~heap'[last'.self].forceRefreshOnLoad

C20_FetchClearsStale == [][C20_FetchStored /\ C20_StaleCleared]_vars
\* C29: under SpecStack, getCurrent() returns the top Screen of a Backstack
\* that holds Screens and leaves the Backstack as it was; on an empty
\* Backstack it fails (throws) instead of returning a value.
C29_GetCurrentContract ==
    bsOp = "getCurrent" =>
        /\ bs = bsPrev
        /\ IF Len(bsPrev) >= 1
           THEN ~bsThrew /\ bsCur = bsPrev[Len(bsPrev)]
           ELSE bsThrew

C29_TopReturned ==
    (bsOp = "getCurrent" /\ Len(bsPrev) >= 1) =>
        bs = bsPrev /\ ~bsThrew /\ bsCur = bsPrev[Len(bsPrev)]

\* C30: under SpecStack, popForced() removes the top Screen and returns true
\* whenever the Backstack holds at least one Screen, the last one included;
\* on an empty Backstack it returns false and leaves it empty.
C30_PopForcedContract ==
    bsOp = "popForced" =>
        IF Len(bsPrev) >= 1
        THEN bsRet /\ bs = Front(bsPrev)
        ELSE ~bsRet /\ bs = bsPrev

\* popForced() has removed the only Screen of a Backstack
C30_Witness ==
    /\ bsOp = "popForced" /\ bsRet
    /\ Len(bsPrev) = 1 /\ bs = <<>>
    /\ Len(bsInit) >= 1
\* the step loads the current Screen of Tab t with the cache allowed
Loads(t) ==
    /\ last'.tab = t
    /\ ~last'.fault
    /\ \/ Ran("tab")
       \/ Ran("construct")
       \/ Ran("refresh")
       \/ Ran("back") /\ backstack' # backstack

\* C21: a form submitted from a Screen flags that Screen stale and leaves it,
\* with its content, where it is on the Backstack; the next load of a Screen
\* flagged stale issues a $.get instead of using its content.
C21_SubmitStep ==
    Ran("submit") =>
        LET s == last'.self
        IN /\ backstack' = backstack
           /\ heap'[s].forceRefreshOnLoad
           /\ heap'[s].htmlCode = heap[s].htmlCode
           /\ heap'[s].url = heap[s].url

C21_StaleLoadStep ==
    \A t \in Tabs :
        LET s == getCurrent(backstack'[t])
        IN (Loads(t) /\ s <= Len(heap) /\ heap'[s].forceRefreshOnLoad) =>
              /\ last'.fetched
              /\ ~last'.wrote
              /\ viewport'.html = viewport.html
              /\ \E r \in BagToSet(inflight') :
                    /\ Issued(r)
                    /\ r.kind = "get" /\ r.tab = t /\ r.screen = s
                    /\ r.url = heap[s].url

C21_SubmitInvalidates == [][C21_SubmitStep /\ C21_StaleLoadStep]_vars

\* a Screen that holds content and from which a form was submitted is
\* fetched again by the next load
C21_Witness ==
    /\ last.op \in {"tab", "back"} /\ last.fetched
    /\ LET s == getCurrent(backstack[last.tab])
       IN /\ heap[s].htmlCode # Null
          /\ heap[s].forceRefreshOnLoad
          /\ \E r \in BagToSet(inflight) : r.kind = "submit" /\ r.screen = s
          /\ \E r \in BagToSet(inflight) : r.kind = "get" /\ r.screen = s
\* C22 as stated: a Screen holds content only if a $.get of it has succeeded
\* and it has not been invalidated since; a new Screen holds none and a
\* failed $.get sets none.
C22_InitialNull ==
    pc = "new" => \A s \in 1..Len(heap) : heap[s].htmlCode = Null

C22_ContentStep ==
    /\ \A s \in (Len(heap) + 1)..Len(heap') : heap'[s].htmlCode = Null
    /\ \A s \in 1..Len(heap) :
          (heap[s].htmlCode = Null /\ heap'[s].htmlCode # Null) =>
              Ran("getSuccess") /\ last'.self = s
    /\ Ran("getFail") =>
          \A s \in 1..Len(heap) :
              heap'[s].url # "garbage" => heap'[s].htmlCode = heap[s].htmlCode

C22_NotInvalidated ==
    \A s \in 1..Len(heap) :
        heap[s].htmlCode # Null => ~heap[s].forceRefreshOnLoad

C22_ContentOnlyWhileValid ==
    [](C22_InitialNull /\ C22_NotInvalidated) /\ [][C22_ContentStep]_vars

\* C22 amended: a Screen holds content only if a $.get of it has succeeded;
\* a new Screen holds none and a failed $.get sets none; neither destroy()
\* nor invalidation clears it: a Screen keeps its content as long as it is
\* referenced.
C22_KeptStep ==
    \A s \in 1..Len(heap) :
        (heap[s].htmlCode # Null /\ heap'[s].url # "garbage") =>
            heap'[s].htmlCode # Null

C22_ContentOnlyAfterFetch ==
    []C22_InitialNull /\ [][C22_ContentStep /\ C22_KeptStep]_vars

\* the $.get of an invalidated Screen has failed: it still holds the
\* content of its earlier fetch
C22_Witness ==
    /\ last.op = "getFail"
    /\ heap[last.self].htmlCode # Null
    /\ heap[last.self].forceRefreshOnLoad
    /\ \E s \in 1..Len(heap) : s # last.self /\ heap[s].htmlCode = Null

\* C23: in every reachable state the interceptors on the page that belong
\* to a Tab are those of one Screen, the top of the Tab's Backstack.
C23_OnlyTopBound ==
    /\ \A i \in 1..Len(nav) :
          nav[i].screen = getCurrent(backstack[nav[i].tab])
    /\ \A i \in 1..Len(vp) :
          vp[i].screen = getCurrent(backstack[vp[i].tab])

\* after the step the page carries no interceptor but the ones the step
\* itself has installed
Released ==
    /\ Len(nav') = (IF last'.installed THEN 1 ELSE 0)
    /\ Len(vp') = (IF last'.installed THEN 1 ELSE 0)

\* C24 as stated: each of the five interceptors releases all interceptors
\* before the Tab's handler runs.
C24_AllFiveStep ==
    (Ran("go") \/ Ran("back") \/ Ran("clear") \/ Ran("refresh")
        \/ Ran("submit")) => Released

C24_AllFiveRelease == [][C24_AllFiveStep]_vars

\* C24 amended: go, back, go-and-replace and refresh release all
\* interceptors before the Tab's handler runs; submit releases none.
C24_FourStep ==
    /\ (Ran("go") \/ Ran("back") \/ Ran("clear") \/ Ran("refresh"))
          => Released
    /\ Ran("submit") => (nav' = nav /\ vp' = vp /\ vp' # <<>>)

C24_FourReleaseSubmitKeeps == [][C24_FourStep]_vars

\* a go link of loaded content was clicked: the page carries no interceptor
\* while the new Screen is fetched
C24_Witness ==
    /\ last.op = "go" /\ last.fetched /\ ~last.installed
    /\ nav = <<>> /\ vp = <<>>
    /\ viewport.html # Null

\* C26: whenever interceptors are installed, the back-visibility applied
\* with them is (depth of the Tab's Backstack > 1); a completion that
\* installs them does not change a Backstack.
C26_BvIsDepth ==
    last.installed =>
        /\ last.bv = (Len(backstack[last.tab]) > 1)
        /\ backCss = last.bv

C26_InstallKeepsStack ==
    Ran("getSuccess") => backstack' = backstack

C26_BackVisibilityIsDepth ==
    []C26_BvIsDepth /\ [][C26_InstallKeepsStack]_vars
\* no interceptor installed by Screen s is on the page
Unbound(s) ==
    /\ \A i \in 1..Len(nav) : nav[i].screen # s
    /\ \A i \in 1..Len(vp) : vp[i].screen # s

\* destroy() called twice leaves what destroy() called once leaves: no
\* interceptor, and the Screens, Backstacks, requests and viewport as they
\* were; on a page without interceptors it changes nothing
C25_Idempotent ==
    LET D == destroy(State)
    IN /\ destroy(D) = D
       /\ D.nav = <<>> /\ D.vp = <<>>
       /\ D = [State EXCEPT !.nav = <<>>, !.vp = <<>>]
       /\ ((nav = <<>> /\ vp = <<>>) => D = State)

C27_FailureKeeps ==
    (Ran("getFail") \/ Ran("submitFail")) =>
        /\ nav' = nav /\ vp' = vp
        /\ backstack' = backstack
        /\ selectedTabViewId' = selectedTabViewId
        /\ ~last'.fault

C27_TabClickRecreates ==
    (Ran("tab") /\ last'.tab = selectedTabViewId) =>
        LET t == last'.tab
            cur == getCurrent(backstack[t])
        IN /\ ~last'.fault
           /\ \/ /\ last'.installed
                 /\ vp' = <<[tab |-> t, screen |-> cur,
                             bv |-> Len(backstack[t]) > 1]>>
              \/ \E r \in BagToSet(inflight') :
                    Issued(r) /\ r.kind = "get" /\ r.tab = t /\ r.screen = cur

C27_SuccessInstalls ==
    Ran("getSuccess") =>
        /\ last'.installed
        /\ \E i \in 1..Len(vp') :
              vp'[i].tab = last'.tab /\ vp'[i].screen = last'.self
        /\ \E i \in 1..Len(nav') :
              nav'[i].tab = last'.tab /\ nav'[i].screen = last'.self

C27_ResponsiveAfterFailure ==
    [][C27_FailureKeeps /\ C27_TabClickRecreates /\ C27_SuccessInstalls]_vars

\* the $.get issued by a go link has failed: the page shows the old content
\* without any interceptor, and the user can still click
C27_Witness ==
    /\ last.op = "getFail" /\ last.origin = "go"
    /\ nav = <<>> /\ vp = <<>>
    /\ viewport.html # Null
    /\ heap[getCurrent(backstack[last.tab])].htmlCode = Null
    /\ clicks < MaxClicks
\* C28: under SpecMisuse, a tab click (or the constructor's click) that
\* activates a Tab whose Backstack is empty, or that happens while
\* selectedTabViewId names no Tab, ends without an uncaught exception.
C28_EmptyStackNoFault ==
    ((Ran("tab") \/ Ran("construct")) /\ selectedTabViewId \in Tabs) =>
        ~last'.fault

C28_NoSelectionNoFault ==
    (Ran("tab") /\ selectedTabViewId = NoTab) => ~last'.fault

C28_MisuseNoFault ==
    [][C28_EmptyStackNoFault /\ C28_NoSelectionNoFault]_vars

\* C28, its last part: after a tab click that met an empty Backstack or
\* an unknown selection, the next tab click is processed: it selects its
\* Tab.
C28_LaterClicksProcessed ==
    [][(Ran("tab") /\ last.fault) =>
          (~last'.fault /\ selectedTabViewId' = last'.tab)]_vars
\* C31: under SpecStack, every push(screen) returns true, makes screen the
\* top, makes the Backstack one Screen deeper and keeps the Screens that
\* were on it where they were, in the same order.
C31_PushContract ==
    bsOp = "push" =>
        /\ bsRet
        /\ Len(bs) = Len(bsPrev) + 1
        /\ getCurrent(bs) = bsNext - 1
        /\ SubSeq(bs, 1, Len(bsPrev)) = bsPrev

\* a push onto a Backstack of two or more Screens, after a popForced
C31_Witness ==
    /\ bsOp = "push"
    /\ Len(bsPrev) >= 2
    /\ bsForced
\* C32: when the submission made from Screen s of Tab t has succeeded and
\* s is the current Screen of t, the Back intent that follows leaves s the
\* current Screen of t, with the interceptors of s installed.
C32_BackStep ==
    (/\ last.op = "submitSuccess"
     /\ getCurrent(backstack[last.tab]) = last.self
     /\ Ran("back") /\ last'.tab = last.tab) =>
        /\ getCurrent(backstack'[last.tab]) = last.self
        /\ Live(last.self)

C32_BackReturnsToSubmitter == [][C32_BackStep]_vars
\* C33: a tab click hides the viewport, destroys the current Screen of the
\* Tab that was selected, sets selectedTabViewId and starts the load, in
\* this order; the load's completion (at once from the cache, or when the
\* $.get succeeds) writes the content to the viewport, calls
\* onViewUpdated(tab id, url), reveals the viewport and then installs the
\* interceptors of the Screen, in this order.
C33_Started == <<"hide", "destroy", "select", "load">>

C33_Completed == <<"write", "notify", "reveal", "install">>

C33_Shown(t, s) ==
    /\ last'.cb = [name |-> "onViewUpdated", tab |-> t, url |-> heap'[s].url]
    /\ observer' = [tab |-> t, url |-> heap'[s].url]
    /\ viewport' = [html |-> heap'[s].htmlCode, visible |-> TRUE]
    /\ vp' = <<[tab |-> t, screen |-> s, bv |-> last'.bv]>>

C33_ClickStep ==
    (Ran("tab") \/ Ran("construct")) =>
        LET t == last'.tab
            s == getCurrent(backstack'[t])
        IN /\ selectedTabViewId' = t
           /\ IF last'.fetched
              THEN /\ last'.steps = C33_Started
                   /\ ~viewport'.visible
                   /\ nav' = <<>> /\ vp' = <<>>
                   /\ \E r \in BagToSet(inflight') :
                         Issued(r) /\ r.tab = t /\ r.screen = s
                                   /\ r.origin = "tab"
              ELSE /\ last'.steps = C33_Started \o C33_Completed
                   /\ C33_Shown(t, s)

C33_CompletionStep ==
    (Ran("getSuccess") /\ last'.origin = "tab") =>
        /\ last'.steps = C33_Completed
        /\ C33_Shown(last'.tab, last'.self)

C33_TabClickOrder == [][C33_ClickStep /\ C33_CompletionStep]_vars

\* the $.get of a click on the other tab has succeeded
C33_Witness ==
    /\ last.op = "getSuccess" /\ last.origin = "tab"
    /\ last.steps = C33_Completed
    /\ last.tab = selectedTabViewId
    /\ \E t \in Tabs : saved[t] # NotLeft
    /\ viewport.visible
\* C34: one click on a go, back, go-and-clear or refresh control runs one
\* handler of the Tab: the handler is never one of several the click
\* started (no handler waits in the queue before or after it), a go pushes
\* exactly one Screen, and after the handler no interceptor is live unless
\* the handler's own load completed from the cache and installed them.
C34_NavKinds == {"go", "back", "clear", "refresh"}

C34_OnceStep ==
    \A k \in C34_NavKinds :
        Ran(k) =>
            /\ queue = <<>> /\ queue' = <<>>
            /\ (k = "go" =>
                  Len(backstack'[last'.tab]) = Len(backstack[last'.tab]) + 1)
            /\ (~last'.installed => (nav' = <<>> /\ vp' = <<>>))
            /\ (last'.installed => (Len(nav') = 1 /\ Len(vp') = 1))

C34_NoDoubleFire == [][C34_OnceStep]_vars
\* the handler has called initialise() on the current Screen of its Tab
C35_Loads == \E i \in 1..Len(last'.steps) : last'.steps[i] = "load"

\* C35: no response is discarded: every $.get that succeeds stores its
\* document in htmlCode of the Screen that issued it, also when that Screen
\* is not the current Screen of the selected Tab any more; and every load
\* of a Screen that has htmlCode and is not flagged for refresh shows
\* htmlCode without a request.
C35_StoreStep ==
    Ran("getSuccess") =>
        /\ heap'[last'.self].htmlCode # Null
        /\ heap'[last'.self].htmlCode # heap[last'.self].htmlCode
        /\ heap'[last'.self].htmlCode.url = last'.arg
        /\ viewport'.html = heap'[last'.self].htmlCode

C35_ServeStep ==
    (last'.op \in {"tab", "construct", "go", "back", "clear", "refresh"}
     /\ vars' # vars /\ C35_Loads) =>
        LET s == getCurrent(backstack'[last'.tab])
        IN IF heap'[s].htmlCode # Null /\ ~heap'[s].forceRefreshOnLoad
           THEN /\ ~last'.fetched
                /\ inflight' = inflight
                /\ heap'[s] = heap[s]
                /\ viewport'.html = heap[s].htmlCode
           ELSE last'.fetched

C35_NoCancellation == [][C35_StoreStep /\ C35_ServeStep]_vars

\* a response has arrived for a Screen of a Tab that is not selected any
\* more: the Screen holds it, is still the current Screen of its Tab and
\* is not flagged, so the next click on its tab shows it from the cache
C35_Witness ==
    /\ last.op = "getSuccess"
    /\ last.tab # selectedTabViewId
    /\ getCurrent(backstack[last.tab]) = last.self
    /\ heap[last.self].htmlCode # Null
    /\ ~heap[last.self].forceRefreshOnLoad
    /\ viewport.html = heap[last.self].htmlCode
    /\ clicks < MaxClicks
\* the interceptors of the current Screen of the selected Tab are installed
\* after the step
C36_CurrentBound ==
    LET t == selectedTabViewId'
        s == getCurrent(backstack'[t])
    IN /\ \E i \in 1..Len(vp') : vp'[i].tab = t /\ vp'[i].screen = s
       /\ \E i \in 1..Len(nav') : nav'[i].tab = t /\ nav'[i].screen = s

\* C36: when the handler of a go, back, go-and-clear or refresh intent of
\* the selected Tab has run and no request is in flight and no handler is
\* queued, the
\* interceptors of the current Screen of the selected Tab are installed,
\* whether or not the handler changed the Backstack.
C36_IntentStep ==
    \A k \in {"go", "back", "clear", "refresh"} :
        (/\ Ran(k) /\ last'.tab = selectedTabViewId
         /\ inflight' = EmptyBag /\ queue' = <<>>) =>
            C36_CurrentBound

C36_BoundAfterIntent == [][C36_IntentStep]_vars
\* C37: under SpecLive (every request is answered), whenever a tab click
\* or the constructor's click has hidden the viewport, the viewport is
\* visible again at some later time, whether the $.get succeeds or fails.
C37_EventuallyRevealed ==
    (last.op \in {"tab", "construct"} /\ ~viewport.visible)
        ~> viewport.visible

\* the half of C37 that holds: the success callback reveals the viewport
C37_RevealedOnSuccess ==
    [][Ran("getSuccess") => viewport'.visible]_vars
====
